---- MODULE Spec2Model ----
(***************************************************************************)
(* The three application templates of lib-slint-expert (basic-app,         *)
(* component-library, cross-platform): entry point, handler registration,  *)
(* event loop, the callback handlers and the compile-time platform probes. *)
(* Strings are TLA+ strings; format!/join are modelled by concatenation.   *)
(***************************************************************************)
EXTENDS Integers, Sequences, FiniteSets, TLC

VARIABLES
    template,   \* which template's main.rs is running
    target,     \* compile-time target configuration [os, arch]
    pc,         \* position of the entry point
    result,     \* what the entry point returned
    raised,     \* the PlatformError the toolkit raised, and where
    handlers,   \* callback registrations, in the order they were made
    ui,         \* fields of the UI Object
    alive,      \* the UI Object still has a strong reference
    panicked,   \* a handler panicked (Weak::unwrap on a dead object)
    runCount,   \* number of calls of run()
    newCount,   \* number of calls of new()
    ev1,        \* the last handler invocation
    ev2,        \* the handler invocation before the last
    ui1,        \* the fields before the last invocation
    ui2,        \* the fields before the invocation before the last
    writes      \* the fields set by the last invocation, in order

vars == <<template, target, pc, result, raised, handlers, ui, alive, panicked,
          runCount, newCount, ev1, ev2, ui1, ui2, writes>>

(***************************************************************************)
(* Bounds                                                                  *)
(***************************************************************************)
MaxCard == 12

\* Card indices tried: zero, one- and two-digit values, negative values.
CardIndices == {0 - MaxCard, 0 - 1, 0, 1, 9, 10, MaxCard}

(***************************************************************************)
(* String helpers (format!, join, Display for integers)                    *)
(***************************************************************************)
Digit(d) == SubSeq("0123456789", d + 1, d + 1)

RECURSIVE DecNat(_)
DecNat(n) == IF n < 10 THEN Digit(n) ELSE DecNat(n \div 10) \o Digit(n % 10)

DisplayIntNoSign(n) == IF n < 0 THEN DecNat(0 - n) ELSE DecNat(n)

\* Display of the card index inside format!("Card {} clicked!", card_index)
DisplayInt(n) == IF n < 0 THEN "-" \o DecNat(0 - n) ELSE DecNat(n)

RECURSIVE Join(_, _)
Join(parts, sep) ==
    IF Len(parts) = 0 THEN ""
    ELSE IF Len(parts) = 1 THEN parts[1]
    ELSE parts[1] \o sep \o Join(Tail(parts), sep)

(***************************************************************************)
(* Platform probe: cfg-gated returns, in source order                      *)
(***************************************************************************)
Templates == {"basic-app", "component-library", "cross-platform"}

\* Target configurations of rustc: (target_os, target_arch), e.g.
\* x86_64-pc-windows-msvc, aarch64-apple-darwin, x86_64-unknown-linux-gnu,
\* aarch64-linux-android, aarch64-apple-ios, x86_64-unknown-freebsd,
\* wasm32-unknown-unknown, wasm32-unknown-emscripten, wasm32-wali-linux-musl.
Targets ==
    { [os |-> "windows",    arch |-> "x86_64"],
      [os |-> "macos",      arch |-> "aarch64"],
      [os |-> "linux",      arch |-> "x86_64"],
      [os |-> "android",    arch |-> "aarch64"],
      [os |-> "ios",        arch |-> "aarch64"],
      [os |-> "freebsd",    arch |-> "x86_64"],
      [os |-> "unknown",    arch |-> "wasm32"],
      [os |-> "emscripten", arch |-> "wasm32"],
      [os |-> "linux",      arch |-> "wasm32"] }

Cfg(b, t) == IF b.key = "target_os" THEN t.os = b.val ELSE t.arch = b.val

PlatformBranches ==
    << [key |-> "target_os",   val |-> "windows", ret |-> "Windows"],
       [key |-> "target_os",   val |-> "macos",   ret |-> "macOS"],
       [key |-> "target_os",   val |-> "linux",   ret |-> "Linux"],
       [key |-> "target_arch", val |-> "wasm32",  ret |-> "WebAssembly"],
       [key |-> "target_os",   val |-> "android", ret |-> "Android"],
       [key |-> "target_os",   val |-> "ios",     ret |-> "iOS"] >>

BackendBranches ==
    << [key |-> "target_os",   val |-> "windows", ret |-> "Win32"],
       [key |-> "target_os",   val |-> "macos",   ret |-> "Cocoa"],
       [key |-> "target_os",   val |-> "linux",   ret |-> "X11/Wayland"],
       [key |-> "target_arch", val |-> "wasm32",  ret |-> "WebGL"] >>

Matching(branches, t) == {i \in DOMAIN branches : Cfg(branches[i], t)}

MinOf(S) == CHOOSE i \in S : \A j \in S : i <= j

MaxOf(S) == CHOOSE i \in S : \A j \in S : j <= i

\* The first compiled-in `return` executes; with none, the tail expression.
FirstReturn(branches, t, fallback) ==
    IF Matching(branches, t) = {} THEN fallback
    ELSE branches[MinOf(Matching(branches, t))].ret

LastReturn(branches, t, fallback) ==
    IF Matching(branches, t) = {} THEN fallback
    ELSE branches[MaxOf(Matching(branches, t))].ret

get_platform_info_lastwins(t) == LastReturn(PlatformBranches, t, "Unknown")

get_platform_info(t) == FirstReturn(PlatformBranches, t, "Unknown")

get_backend_info(t) == FirstReturn(BackendBranches, t, "Default")

get_available_features(t) ==
    <<"Basic UI", "Animations", "Theming">> \o
    (IF t.arch # "wasm32"
        THEN <<"File dialogs", "System tray", "Multiple windows">>
        ELSE <<"Web integration", "Browser storage">>)

PlatformInfoText(t) ==
    "Platform: " \o get_platform_info(t) \o "\nBackend: " \o get_backend_info(t)
        \o "\nFeatures: " \o Join(get_available_features(t), ", ")

TestResultsText(t) ==
    Join(<<"Window operations: OK",
           IF t.arch # "wasm32" THEN "Threading: Available" ELSE "Threading: Limited",
           IF t.arch # "wasm32" THEN "File system: Available"
                                ELSE "File system: Browser storage",
           "Graphics: Hardware accelerated">>, "\n")

(***************************************************************************)
(* The UI Object: fields, setters, weak handle                             *)
(***************************************************************************)
Fields == {"notification_text", "status_text", "platform_info", "test_results",
           "current_theme"}

\* Before construction there is no object; all fields read as empty.
NoFields == [f \in Fields |-> ""]

\* Values the theme flag can hold in the markup: a two-valued flag.
ThemeValues == {"light", "dark"}

InitialFields(theme) == [NoFields EXCEPT !["current_theme"] = theme]

\* set_<field>(value): one field write, recorded in the invocation's log.
SetField(app, f, v) ==
    [fields |-> [app.fields EXCEPT ![f] = v], log |-> Append(app.log, f)]

App(u) == [fields |-> u, log |-> <<>>]

(***************************************************************************)
(* Handler bodies                                                          *)
(***************************************************************************)
primary_button_clicked_flip(app) ==
    SetField(app, "notification_text",
             IF app.fields["notification_text"] = "Primary button clicked!"
                THEN "" ELSE "Primary button clicked!")

primary_button_clicked(app) ==
    SetField(app, "notification_text", "Primary button clicked!")

secondary_button_clicked(app) ==
    SetField(app, "notification_text", "Secondary button clicked!")

CardMessageNoSign(card_index) == "Card " \o DisplayIntNoSign(card_index) \o " clicked!"

CardMessage(card_index) == "Card " \o DisplayInt(card_index) \o " clicked!"

card_button_clicked(app, card_index) ==
    SetField(app, "notification_text", CardMessage(card_index))

SwitchMessageSwapped(is_on) == "Switch is now " \o (IF is_on THEN "OFF" ELSE "ON")

SwitchMessage(is_on) == "Switch is now " \o (IF is_on THEN "ON" ELSE "OFF")

switch_toggled(app, is_on) ==
    SetField(app, "notification_text", SwitchMessage(is_on))

show_platform_info(app, t) ==
    SetField(app, "platform_info", PlatformInfoText(t))

test_platform_features_wrongfield(app, t) ==
    SetField(app, "platform_info", TestResultsText(t))

test_platform_features(app, t) ==
    SetField(app, "test_results", TestResultsText(t))

NewThemeStuck(current_theme) == "dark"

NewTheme(current_theme) == IF current_theme = "light" THEN "dark" ELSE "light"

toggle_theme_nostatus(app) ==
    SetField(app, "current_theme", NewTheme(app.fields["current_theme"]))

toggle_theme(app) ==
    LET new_theme == NewTheme(app.fields["current_theme"])
    IN  SetField(SetField(app, "current_theme", new_theme),
                 "status_text", "Theme changed to " \o new_theme)

(***************************************************************************)
(* Entry points                                                            *)
(***************************************************************************)
PlatformErrors == {"NoDisplay", "ResourceExhausted"}

NoResult == [kind |-> "none", err |-> "none"]

Ok == [kind |-> "Ok", err |-> "none"]

TrySwallow(e) == Ok

\* The ? operator / returning run()'s Result: the error itself, unchanged.
Try(e) == [kind |-> "Err", err |-> e]

RegOrderDuplicate(tpl) ==
    IF tpl = "component-library"
        THEN <<"primary_button_clicked", "primary_button_clicked",
               "card_button_clicked", "switch_toggled">>
    ELSE IF tpl = "cross-platform"
        THEN <<"show_platform_info", "test_features", "test_features">>
    ELSE <<>>

\* The on_<event> registrations of each template, in program order.
RegOrder(tpl) ==
    IF tpl = "component-library"
        THEN <<"primary_button_clicked", "secondary_button_clicked",
               "card_button_clicked", "switch_toggled">>
    ELSE IF tpl = "cross-platform"
        THEN <<"show_platform_info", "test_features", "toggle_theme">>
    ELSE <<>>

Registered(name) == \E i \in DOMAIN handlers : handlers[i] = name

NoEvent == [name |-> "none", i |-> 0, b |-> FALSE, live |-> FALSE]

Event(name, i, b) == [name |-> name, i |-> i, b |-> b, live |-> alive]

Init ==
    /\ template \in Templates
    /\ target \in Targets
    /\ pc = "new"
    /\ result = NoResult
    /\ raised = [at |-> "none", err |-> "none"]
    /\ handlers = <<>>
    /\ ui = NoFields
    /\ alive = FALSE
    /\ panicked = FALSE
    /\ runCount = 0
    /\ newCount = 0
    /\ ev1 = NoEvent
    /\ ev2 = NoEvent
    /\ ui1 = NoFields
    /\ ui2 = NoFields
    /\ writes = <<>>

\* <App>::new()? succeeds
ConstructOk ==
    /\ pc = "new"
    /\ \E theme \in ThemeValues : ui' = InitialFields(theme)
    /\ alive' = TRUE
    /\ newCount' = newCount + 1
    /\ pc' = "setup"
    /\ UNCHANGED <<template, target, result, raised, handlers, panicked, runCount,
                   ev1, ev2, ui1, ui2, writes>>

\* <App>::new()? fails: the entry point returns the error
ConstructFails ==
    /\ pc = "new"
    /\ \E e \in PlatformErrors :
          /\ raised' = [at |-> "new", err |-> e]
          /\ result' = Try(e)
    /\ newCount' = newCount + 1
    /\ pc' = "done"
    /\ UNCHANGED <<template, target, handlers, ui, alive, panicked, runCount,
                   ev1, ev2, ui1, ui2, writes>>

\* the next app.on_<event>(closure) in program order
Register ==
    /\ pc = "setup"
    /\ Len(handlers) < Len(RegOrder(template))
    /\ handlers' = Append(handlers, RegOrder(template)[Len(handlers) + 1])
    /\ UNCHANGED <<template, target, pc, result, raised, ui, alive, panicked,
                   runCount, newCount, ev1, ev2, ui1, ui2, writes>>

\* all registrations made; cross-platform goes on to show_platform_info
SetupDone ==
    /\ pc = "setup"
    /\ Len(handlers) = Len(RegOrder(template))
    /\ pc' = IF template = "cross-platform" THEN "show_info" ELSE "run"
    /\ UNCHANGED <<template, target, result, raised, handlers, ui, alive, panicked,
                   runCount, newCount, ev1, ev2, ui1, ui2, writes>>

\* run_app: show_platform_info(&main_window)
StartupShowPlatformInfo ==
    /\ pc = "show_info"
    /\ ui' = show_platform_info(App(ui), target).fields
    /\ pc' = "run"
    /\ UNCHANGED <<template, target, result, raised, handlers, alive, panicked,
                   runCount, newCount, ev1, ev2, ui1, ui2, writes>>

\* <app>.run(): the event loop takes the thread
Run ==
    /\ pc = "run"
    /\ runCount' = runCount + 1
    /\ pc' = "running"
    /\ UNCHANGED <<template, target, result, raised, handlers, ui, alive, panicked,
                   newCount, ev1, ev2, ui1, ui2, writes>>

\* The UI Object loses its last strong reference while events are pending.
Destroy ==
    /\ pc = "running"
    /\ alive
    /\ alive' = FALSE
    /\ UNCHANGED <<template, target, pc, result, raised, handlers, ui, panicked,
                   runCount, newCount, ev1, ev2, ui1, ui2, writes>>

\* Bookkeeping common to every handler invocation.
Invoked(ev) ==
    /\ ev1' = ev
    /\ ev2' = ev1
    /\ ui1' = ui
    /\ ui2' = ui1
    /\ UNCHANGED <<template, target, result, raised, handlers, alive,
                   runCount, newCount>>

\* let window = window_weak.unwrap(); <body>   (component-library)
WithUnwrap(after) ==
    IF alive
        THEN /\ ui' = after.fields
             /\ writes' = after.log
             /\ UNCHANGED <<pc, panicked>>
        ELSE /\ panicked' = TRUE
             /\ pc' = "panicked"
             /\ writes' = <<>>
             /\ UNCHANGED ui

\* if let Some(app) = app_weak.upgrade() { <body> }   (cross-platform)
WithUpgrade(after) ==
    /\ IF alive
          THEN /\ ui' = after.fields
               /\ writes' = after.log
          ELSE /\ writes' = <<>>
               /\ UNCHANGED ui
    /\ UNCHANGED <<pc, panicked>>

Dispatch(name) == pc = "running" /\ Registered(name)

PrimaryButtonClicked ==
    /\ Dispatch("primary_button_clicked")
    /\ WithUnwrap(primary_button_clicked(App(ui)))
    /\ Invoked(Event("primary_button_clicked", 0, FALSE))

SecondaryButtonClicked ==
    /\ Dispatch("secondary_button_clicked")
    /\ WithUnwrap(secondary_button_clicked(App(ui)))
    /\ Invoked(Event("secondary_button_clicked", 0, FALSE))

CardButtonClicked ==
    /\ Dispatch("card_button_clicked")
    /\ \E card_index \in CardIndices :
          /\ WithUnwrap(card_button_clicked(App(ui), card_index))
          /\ Invoked(Event("card_button_clicked", card_index, FALSE))

SwitchToggled ==
    /\ Dispatch("switch_toggled")
    /\ \E is_on \in BOOLEAN :
          /\ WithUnwrap(switch_toggled(App(ui), is_on))
          /\ Invoked(Event("switch_toggled", 0, is_on))

ShowPlatformInfo ==
    /\ Dispatch("show_platform_info")
    /\ WithUpgrade(show_platform_info(App(ui), target))
    /\ Invoked(Event("show_platform_info", 0, FALSE))

TestFeatures ==
    /\ Dispatch("test_features")
    /\ WithUpgrade(test_platform_features(App(ui), target))
    /\ Invoked(Event("test_features", 0, FALSE))

ToggleTheme ==
    /\ Dispatch("toggle_theme")
    /\ WithUpgrade(toggle_theme(App(ui)))
    /\ Invoked(Event("toggle_theme", 0, FALSE))

\* run() returns Ok(()) when the window closes; the entry point returns it
RunReturnsOk ==
    /\ pc = "running"
    /\ result' = Ok
    /\ alive' = FALSE
    /\ pc' = "done"
    /\ UNCHANGED <<template, target, raised, handlers, ui, panicked, runCount,
                   newCount, ev1, ev2, ui1, ui2, writes>>

\* run() returns a PlatformError; the entry point returns it
RunReturnsErr ==
    /\ pc = "running"
    /\ \E e \in PlatformErrors :
          /\ raised' = [at |-> "run", err |-> e]
          /\ result' = Try(e)
    /\ alive' = FALSE
    /\ pc' = "done"
    /\ UNCHANGED <<template, target, handlers, ui, panicked, runCount,
                   newCount, ev1, ev2, ui1, ui2, writes>>

Next ==
    \/ ConstructOk
    \/ ConstructFails
    \/ Register
    \/ SetupDone
    \/ StartupShowPlatformInfo
    \/ Run
    \/ Destroy
    \/ PrimaryButtonClicked
    \/ SecondaryButtonClicked
    \/ CardButtonClicked
    \/ SwitchToggled
    \/ ShowPlatformInfo
    \/ TestFeatures
    \/ ToggleTheme
    \/ RunReturnsOk
    \/ RunReturnsErr

Spec == Init /\ [][Next]_vars

TypeOK ==
    /\ template \in Templates
    /\ target \in Targets
    /\ pc \in {"new", "setup", "show_info", "run", "running", "done", "panicked"}
    /\ alive \in BOOLEAN
    /\ panicked \in BOOLEAN
    /\ runCount \in 0..1
    /\ newCount \in 0..1
    /\ DOMAIN ui = Fields

(***************************************************************************)
(* Properties                                                              *)
(***************************************************************************)
StartsWith(s, p) == Len(p) <= Len(s) /\ SubSeq(s, 1, Len(p)) = p

EndsWith(s, p) == Len(p) <= Len(s) /\ SubSeq(s, Len(s) - Len(p) + 1, Len(s)) = p

Contains(s, sub) ==
    \E i \in 1 .. (Len(s) - Len(sub) + 1) : SubSeq(s, i, i + Len(sub) - 1) = sub

IsDigit(c) == \E d \in 0..9 : Digit(d) = c

DigitValue(c) == CHOOSE d \in 0..9 : Digit(d) = c

IsNatText(s) ==
    /\ Len(s) >= 1
    /\ \A k \in 1..Len(s) : IsDigit(SubSeq(s, k, k))
    /\ (Len(s) > 1 => SubSeq(s, 1, 1) # "0")

RECURSIVE ParseNat(_)
ParseNat(s) ==
    IF Len(s) = 0 THEN 0
    ELSE 10 * ParseNat(SubSeq(s, 1, Len(s) - 1)) + DigitValue(SubSeq(s, Len(s), Len(s)))

\* s is the canonical decimal text of the integer n
IsDecimalOf(s, n) ==
    IF StartsWith(s, "-")
        THEN /\ IsNatText(SubSeq(s, 2, Len(s)))
             /\ n < 0
             /\ ParseNat(SubSeq(s, 2, Len(s))) = 0 - n
        ELSE /\ IsNatText(s)
             /\ ParseNat(s) = n

Range(q) == {q[k] : k \in DOMAIN q}

NoDup(q) == \A j, k \in DOMAIN q : q[j] = q[k] => j = k

InvokedLive == ev1.name # "none" /\ ev1.live

InvokedDead == ev1.name # "none" /\ ~ev1.live

\* C1: a handler invoked after the UI Object was destroyed raises no panic and
\* writes no field. Stated as the claim has it; component-library's handlers
\* use Weak::unwrap and panic instead.
C1_DeadInvocationIsSilentNoOp ==
    InvokedDead => (~panicked /\ pc # "panicked" /\ writes = <<>> /\ ui = ui1)

\* C2: two successive toggle_theme invocations on a live UI Object leave
\* current_theme equal to its value before the first of them.
C2_ToggleTwiceRestoresTheme ==
    (ev1.name = "toggle_theme" /\ ev2.name = "toggle_theme" /\ ev1.live /\ ev2.live)
        => (/\ ui["current_theme"] = ui2["current_theme"]
            /\ ui1["current_theme"] # ui2["current_theme"])

C2_Witness ==
    /\ ev1.name = "toggle_theme" /\ ev2.name = "toggle_theme"
    /\ ev1.live /\ ev2.live
    /\ ui2["current_theme"] = "dark"
    /\ ui["current_theme"] = "dark"

\* C3: a PlatformError raised by new() is what the entry point returns, after a
\* single call of new(), with no handler registered, no field written and run()
\* never called; a PlatformError raised by run() is what the entry point returns.
C3_ErrorsPropagateUnchanged ==
    /\ raised.at = "new" =>
          /\ pc = "done"
          /\ result = [kind |-> "Err", err |-> raised.err]
          /\ newCount = 1
          /\ handlers = <<>>
          /\ ui = NoFields /\ writes = <<>> /\ ev1 = NoEvent
          /\ runCount = 0
    /\ raised.at = "run" =>
          /\ pc = "done"
          /\ result = [kind |-> "Err", err |-> raised.err]
          /\ newCount = 1 /\ runCount = 1
    /\ result.kind = "Err" => raised.at # "none"

C3_Witness ==
    /\ raised = [at |-> "new", err |-> "NoDisplay"]
    /\ pc = "done"
    /\ template = "cross-platform"

\* C4: after card_button_clicked(i) on a live UI Object the notification text is
\* "Card ", the canonical decimal text of i, " clicked!", whatever it was before.
C4_CardClickSetsIndexedText ==
    (ev1.name = "card_button_clicked" /\ ev1.live) =>
        LET s == ui["notification_text"]
            mid == SubSeq(s, Len("Card ") + 1, Len(s) - Len(" clicked!"))
        IN  /\ StartsWith(s, "Card ")
            /\ EndsWith(s, " clicked!")
            /\ Len(s) > Len("Card ") + Len(" clicked!")
            /\ IsDecimalOf(mid, ev1.i)
            /\ Contains(s, mid)
            /\ (ev1.i = 0 => s = "Card 0 clicked!")
            /\ writes = <<"notification_text">>

C4_Witness ==
    /\ ev1.name = "card_button_clicked" /\ ev1.live
    /\ ev1.i = 0 - MaxCard
    /\ ui1["notification_text"] = "Switch is now ON"
    /\ ui["notification_text"] # ui1["notification_text"]

\* C5: after switch_toggled(true) the text contains "ON", after
\* switch_toggled(false) it contains "OFF"; the text is fixed by the argument.
C5_SwitchTextFollowsArgument ==
    (ev1.name = "switch_toggled" /\ ev1.live) =>
        LET s == ui["notification_text"]
        IN  /\ ev1.b => (Contains(s, "ON") /\ ~Contains(s, "OFF"))
            /\ ~ev1.b => (Contains(s, "OFF") /\ ~Contains(s, "ON"))
            /\ s = (IF ev1.b THEN "Switch is now ON" ELSE "Switch is now OFF")

C5_Witness ==
    /\ ev1.name = "switch_toggled" /\ ev1.live /\ ~ev1.b
    /\ ev2.name = "switch_toggled" /\ ev2.live /\ ev2.b
    /\ Contains(ui["notification_text"], "OFF")

\* C6 as claimed: an invocation (on a live UI Object) sets exactly one field and
\* leaves every other field unchanged.
C6_ExactlyOneWritePerInvocation ==
    InvokedLive =>
        /\ Len(writes) = 1
        /\ \A f \in Fields \ {writes[1]} : ui[f] = ui1[f]

\* C6 amended: an invocation on a live UI Object sets exactly one field, except
\* toggle_theme, which sets current_theme and then status_text; fields not set
\* are unchanged; an invocation on a destroyed UI Object sets no field.
C6_OneWriteExceptToggleTheme ==
    /\ InvokedLive =>
          /\ IF ev1.name = "toggle_theme"
                THEN writes = <<"current_theme", "status_text">>
                ELSE Len(writes) = 1
          /\ \A f \in Fields \ Range(writes) : ui[f] = ui1[f]
    /\ InvokedDead => (writes = <<>> /\ ui = ui1)

C6_Witness ==
    /\ InvokedLive
    /\ ev1.name = "toggle_theme"
    /\ ui["current_theme"] # ui1["current_theme"]
    /\ ui["status_text"] # ui1["status_text"]

HandlerNames(tpl) ==
    IF tpl = "component-library"
        THEN {"primary_button_clicked", "secondary_button_clicked",
              "card_button_clicked", "switch_toggled"}
    ELSE IF tpl = "cross-platform"
        THEN {"show_platform_info", "test_features", "toggle_theme"}
    ELSE {}

\* C7: no event name is registered twice; run() is called at most once and only
\* after every handler of the template is registered; nothing is registered
\* after run(); no handler is invoked before run().
C7_RegistrationBeforeRun ==
    /\ NoDup(handlers)
    /\ Range(handlers) \subseteq HandlerNames(template)
    /\ runCount <= 1
    /\ runCount = 1 =>
          /\ Range(handlers) = HandlerNames(template)
          /\ Len(handlers) = Cardinality(HandlerNames(template))
          /\ pc \in {"running", "done", "panicked"}
    /\ ev1.name # "none" => (runCount = 1 /\ ev1.name \in Range(handlers))
    /\ (pc = "done" /\ result = Ok) => runCount = 1

C7_Witness ==
    /\ template = "component-library"
    /\ pc = "running"
    /\ ev1.name = "switch_toggled"
    /\ Len(handlers) = 4

\* run_app is past its show_platform_info call
InfoShown ==
    /\ template = "cross-platform"
    /\ (pc \in {"run", "running"} \/ (pc = "done" /\ runCount = 1))

InfoHas(platform, backend) ==
    /\ StartsWith(ui["platform_info"], "Platform: " \o platform \o "\nBackend: ")
    /\ Contains(ui["platform_info"], "\nBackend: " \o backend \o "\nFeatures: ")

\* C8 as claimed: for every target at most one recognised configuration of each
\* probe matches; the probe yields that configuration's string, and the
\* fallback when none matches.
C8_ExactlyOneBranchApplies ==
    InfoShown =>
        /\ Cardinality(Matching(PlatformBranches, target)) <= 1
        /\ Cardinality(Matching(BackendBranches, target)) <= 1
        /\ \A i \in Matching(PlatformBranches, target),
              j \in Matching(BackendBranches, target) :
                 InfoHas(PlatformBranches[i].ret, BackendBranches[j].ret)

ExpectedPlatform(t) ==
    IF t.os = "windows" THEN "Windows"
    ELSE IF t.os = "macos" THEN "macOS"
    ELSE IF t.os = "linux" THEN "Linux"
    ELSE IF t.arch = "wasm32" THEN "WebAssembly"
    ELSE IF t.os = "android" THEN "Android"
    ELSE IF t.os = "ios" THEN "iOS"
    ELSE "Unknown"

ExpectedBackend(t) ==
    IF t.os = "windows" THEN "Win32"
    ELSE IF t.os = "macos" THEN "Cocoa"
    ELSE IF t.os = "linux" THEN "X11/Wayland"
    ELSE IF t.arch = "wasm32" THEN "WebGL"
    ELSE "Default"

\* C8 amended: each probe yields the string of the first recognised
\* configuration, in source order, that the target matches, and the fallback
\* ("Unknown", "Default") when it matches none; a target matching exactly one
\* configuration yields that configuration's string.
C8_FirstMatchingBranchWins ==
    InfoShown =>
        /\ InfoHas(ExpectedPlatform(target), ExpectedBackend(target))
        /\ \A i \in Matching(PlatformBranches, target) :
              Cardinality(Matching(PlatformBranches, target)) = 1
                 => InfoHas(PlatformBranches[i].ret, ExpectedBackend(target))
        /\ Matching(PlatformBranches, target) = {}
              => InfoHas("Unknown", ExpectedBackend(target))
        /\ Matching(BackendBranches, target) = {}
              => InfoHas(ExpectedPlatform(target), "Default")

C8_Witness ==
    /\ InfoShown
    /\ pc = "running"
    /\ target = [os |-> "linux", arch |-> "wasm32"]
    /\ InfoHas("Linux", "X11/Wayland")

\* C9 as claimed: invoking any handler twice in succession with the same
\* argument leaves the fields as the first invocation left them.
C9_EveryHandlerIdempotent ==
    (InvokedLive /\ ev2 = ev1) => ui = ui1

\* C9 amended: the same for every handler other than toggle_theme.
C9_IdempotentExceptToggleTheme ==
    (InvokedLive /\ ev2 = ev1 /\ ev1.name # "toggle_theme") => ui = ui1

C9_Witness ==
    /\ InvokedLive /\ ev2 = ev1
    /\ ev1.name = "primary_button_clicked"
    /\ ui2 # ui1
    /\ ui = ui1

\* C10: in the cross-platform template platform_info holds, from before run()
\* on and after any events, the text fixed by the target configuration.
C10_PlatformInfoFixedAfterStartup ==
    /\ InfoShown =>
          /\ ui["platform_info"] = PlatformInfoText(target)
          /\ ev1.name # "none" => ui1["platform_info"] = ui["platform_info"]
    /\ (template = "cross-platform" /\ pc \in {"setup", "show_info"})
          => ui["platform_info"] = ""

C10_Witness ==
    /\ InfoShown
    /\ ev1.name = "test_features" /\ ev1.live
    /\ ev2.name = "toggle_theme" /\ ev2.live
    /\ ui["platform_info"] # ""

====
